---------------------------- MODULE Spec2Model ----------------------------
(***************************************************************************)
(* PDFBot (src/src/main.rs): a command-line driver that extracts the text  *)
(* of one PDF, normalizes it with process_extracted_text and writes it to  *)
(* an output file.                                                         *)
(*                                                                         *)
(* Text is a sequence of characters (one-character strings).  Two          *)
(* specifications are given:                                               *)
(*   SpecNorm - process_extracted_text, one loop iteration per step;       *)
(*   Spec     - main, one program point per step.                          *)
(***************************************************************************)
EXTENDS Integers, Sequences, FiniteSets, TLC

\* Bounds of the model
MaxLen == 5
MaxPathLen == 4
MaxTextLen == 2

\* The characters texts are drawn from: an alphanumeric one, a punctuation
\* one, the space, a newline and one more white space character (which is
\* also the one str::lines() strips in front of a newline).
Chars == {"a", ".", " ", "\n", "\r"}

\* The characters paths are drawn from.
PathChars == {"a", ".", "/"}

SeqsUpTo(S, n) == UNION {[1..k -> S] : k \in 0..n}

Last(s) == s[Len(s)]
Front(s) == SubSeq(s, 1, Len(s) - 1)

\* The pieces of s between the occurrences of sep, empty pieces included.
RECURSIVE SplitOn(_, _)
SplitOn(s, sep) ==
    IF \E i \in 1..Len(s) : s[i] = sep
    THEN LET i == CHOOSE k \in 1..Len(s) :
                      s[k] = sep /\ \A j \in 1..(k - 1) : s[j] # sep
         IN <<SubSeq(s, 1, i - 1)>> \o SplitOn(SubSeq(s, i + 1, Len(s)), sep)
    ELSE <<s>>

\* Option<T>: None is the empty sequence, Some(x) is <<x>>.
None == <<>>
Some(x) == <<x>>

-----------------------------------------------------------------------------
(* Character classes and string functions of the standard library, as      *)
(* process_extracted_text uses them.                                       *)

\* The white space characters among Chars.
WhiteSpaceChars == {" ", "\n", "\r"}

\* A plausible slip: the carriage return is not taken for white space.
IsWhitespaceNoCR(c) == c \in {" ", "\n"}

\* char::is_whitespace, which str::trim and str::split_whitespace use too
IsWhitespace(c) == c \in WhiteSpaceChars
IsAlphanumeric(c) == c \in {"a"}

EndsWith(s, suffix) ==
    /\ Len(s) >= Len(suffix)
    /\ SubSeq(s, Len(s) - Len(suffix) + 1, Len(s)) = suffix

\* Index of the first newline of s, 0 when there is none.
FirstNewline(s) ==
    IF \E i \in 1..Len(s) : s[i] = "\n"
    THEN CHOOSE i \in 1..Len(s) : s[i] = "\n" /\ \A j \in 1..(i - 1) : s[j] # "\n"
    ELSE 0

\* str::split_inclusive('\n'): pieces that keep their terminating newline.
RECURSIVE SplitInclusive(_)
SplitInclusive(s) ==
    IF s = <<>> THEN <<>>
    ELSE LET i == FirstNewline(s)
         IN IF i = 0 THEN <<s>>
            ELSE <<SubSeq(s, 1, i)>> \o SplitInclusive(SubSeq(s, i + 1, Len(s)))

\* One line of str::lines(): the terminating "\n" or "\r\n" is removed; a
\* final piece without a newline is kept as it is.
StripLineEnding(piece) ==
    IF piece # <<>> /\ Last(piece) = "\n"
    THEN LET l == Front(piece)
         IN IF l # <<>> /\ Last(l) = "\r" THEN Front(l) ELSE l
    ELSE piece

\* raw_text.lines()
Lines(s) ==
    LET pieces == SplitInclusive(s)
    IN [i \in 1..Len(pieces) |-> StripLineEnding(pieces[i])]

RECURSIVE TrimStart(_)
TrimStart(s) ==
    IF s # <<>> /\ IsWhitespace(s[1]) THEN TrimStart(Tail(s)) ELSE s

RECURSIVE TrimEnd(_)
TrimEnd(s) ==
    IF s # <<>> /\ IsWhitespace(Last(s)) THEN TrimEnd(Front(s)) ELSE s

\* A plausible slip: only the leading white space is removed.
TrimStartOnly(line) == TrimStart(line)

\* line.trim()
Trim(line) == TrimEnd(TrimStart(line))

\* str::split_whitespace(): the maximal runs of non white space.
RECURSIVE SplitWhitespace(_)
SplitWhitespace(s) ==
    LET t == TrimStart(s)
    IN IF t = <<>> THEN <<>>
       ELSE LET n == IF \E i \in 1..Len(t) : IsWhitespace(t[i])
                     THEN (CHOOSE i \in 1..Len(t) :
                              /\ IsWhitespace(t[i])
                              /\ \A j \in 1..(i - 1) : ~IsWhitespace(t[j])) - 1
                     ELSE Len(t)
            IN <<SubSeq(t, 1, n)>> \o SplitWhitespace(SubSeq(t, n + 1, Len(t)))

\* [&str]::join(sep)
RECURSIVE Join(_, _)
Join(parts, sep) ==
    IF parts = <<>> THEN <<>>
    ELSE IF Len(parts) = 1 THEN parts[1]
    ELSE parts[1] \o sep \o Join(Tail(parts), sep)

-----------------------------------------------------------------------------
(* process_extracted_text                                                  *)

\* A plausible slip: the guards of the blank-line branch are dropped.
PushBlankUnguarded(p) == Append(p, "\n")

\* The blank-line branch of the loop: the new value of processed.
PushBlank(p) ==
    IF ~EndsWith(p, <<"\n", "\n">>) /\ p # <<>> THEN Append(p, "\n") ELSE p

\* A plausible slip: only the alphanumeric test decides.
NeedsSpaceAlnumOnly(p, trimmed) ==
    /\ p # <<>>
    /\ ~EndsWith(p, <<"\n">>)
    /\ IsAlphanumeric(Last(p)) /\ IsAlphanumeric(trimmed[1])

\* Whether the non-blank branch pushes a space before the line.
NeedsSpace(p, trimmed) ==
    /\ p # <<>>
    /\ ~EndsWith(p, <<"\n">>)
    /\ LET last_char == Last(p)
           first_char == trimmed[1]
       IN IF IsAlphanumeric(last_char) /\ IsAlphanumeric(first_char) THEN TRUE
          ELSE ~IsWhitespace(last_char)

\* The non-blank branch of the loop: the new value of processed.
PushLine(p, trimmed) ==
    (IF NeedsSpace(p, trimmed) THEN Append(p, " ") ELSE p) \o trimmed

\* One iteration of the loop.
LoopBody(p, line) ==
    LET trimmed == Trim(line)
    IN IF trimmed = <<>> THEN PushBlank(p) ELSE PushLine(p, trimmed)

\* The whole loop, started with processed = p.
RECURSIVE Reconstruct(_, _)
Reconstruct(p, ls) ==
    IF ls = <<>> THEN p ELSE Reconstruct(LoopBody(p, Head(ls)), Tail(ls))

\* A plausible slip: the text is taken over as it is.
CleanupIdentity(p) == p

\* processed.split_whitespace().collect::<Vec<&str>>().join(" ")
Cleanup(p) == Join(SplitWhitespace(p), <<" ">>)

\* The literal lines of the header and of the footer; each is one element
\* of a text, like a character.
HeaderTitle == "=== PDF TEXT EXTRACTION ==="
HeaderNotice1 == "This text was extracted from a PDF file for AI processing."
HeaderNotice2 == "Some formatting and layout information may be lost."
ContentBegins == "=== CONTENT BEGINS ==="
ContentEnds == "=== CONTENT ENDS ==="

Header ==
    <<HeaderTitle, "\n", HeaderNotice1, "\n", HeaderNotice2, "\n",
      ContentBegins, "\n", "\n">>

Footer == <<"\n", "\n", ContentEnds, "\n">>

\* A plausible slip: the footer loses its final newline.
WrapNoFinalNewline(c) == Header \o c \o <<"\n", "\n", ContentEnds>>

\* A plausible slip: one newline only after the begin marker.
WrapShortHeader(c) == Front(Header) \o c \o Footer

\* The six push_str calls that build result.
Wrap(c) == Header \o c \o Footer

process_extracted_text(raw) == Wrap(Cleanup(Reconstruct(<<>>, Lines(raw))))

\* The content region of an output: what lies between header and footer.
ContentRegion(r) == SubSeq(r, Len(Header) + 1, Len(r) - Len(Footer))

-----------------------------------------------------------------------------
(* State                                                                   *)

VARIABLES
    \* process_extracted_text
    raw_text,        \* the argument
    lines,           \* what the iterator raw_text.lines() has left
    processed,       \* the accumulated text
    prev_char,       \* assigned in the loop, never read
    cleaned,         \* the single-spaced text
    result,          \* the returned text
    npc,             \* position: "loop", "clean", "wrap", "done", "idle"
    pass,            \* 1: a raw input, 2: the content region fed back
    \* main
    input_path,      \* --input
    output_arg,      \* --output, an Option
    verbose,         \* --verbose
    pc,              \* position in main
    output_path,     \* an Option: None until determined
    text,            \* the extracted text
    processed_text,  \* the normalized text
    file,            \* the output file: "untouched", "partial" or "written"
    file_content,    \* what a successful write put into the output file
    stdout,          \* the lines printed
    stderr,          \* the lines reported
    exit_code,       \* an Option: None while the process runs
    steps            \* history: the steps taken so far, in order

normVars == <<raw_text, lines, processed, prev_char, cleaned, result, npc, pass>>
mainVars == <<input_path, output_arg, verbose, pc, output_path, text,
              processed_text, file, file_content, stdout, stderr, exit_code,
              steps>>
vars == <<normVars, mainVars>>

-----------------------------------------------------------------------------
(* process_extracted_text, step by step                                    *)

NormIdle ==
    /\ raw_text = <<>> /\ lines = <<>> /\ processed = <<>> /\ prev_char = " "
    /\ cleaned = <<>> /\ result = <<>> /\ npc = "idle" /\ pass = 0

MainIdle ==
    /\ input_path = <<>> /\ output_arg = None /\ verbose = FALSE
    /\ pc = "idle" /\ output_path = None /\ text = <<>>
    /\ processed_text = <<>> /\ file = "untouched" /\ file_content = <<>>
    /\ stdout = <<>> /\ stderr = <<>> /\ exit_code = None /\ steps = <<>>

\* Entry of the function with any text of at most MaxLen characters.
InitNorm ==
    /\ raw_text \in SeqsUpTo(Chars, MaxLen)
    /\ lines = Lines(raw_text)
    /\ processed = <<>>
    /\ prev_char = " "
    /\ cleaned = <<>>
    /\ result = <<>>
    /\ npc = "loop"
    /\ pass = 1
    /\ MainIdle

\* An iteration on a line that is empty once trimmed.
IterBlank ==
    /\ npc = "loop" /\ lines # <<>>
    /\ Trim(Head(lines)) = <<>>
    /\ processed' = PushBlank(processed)
    /\ lines' = Tail(lines)
    /\ UNCHANGED <<raw_text, prev_char, cleaned, result, npc, pass, mainVars>>

\* An iteration on any other line.
IterLine ==
    /\ npc = "loop" /\ lines # <<>>
    /\ LET trimmed == Trim(Head(lines))
       IN /\ trimmed # <<>>
          /\ processed' = PushLine(processed, trimmed)
          /\ prev_char' = Last(trimmed)
    /\ lines' = Tail(lines)
    /\ UNCHANGED <<raw_text, cleaned, result, npc, pass, mainVars>>

\* The iterator is exhausted: the loop ends.
LoopEnd ==
    /\ npc = "loop" /\ lines = <<>>
    /\ npc' = "clean"
    /\ UNCHANGED <<raw_text, lines, processed, prev_char, cleaned, result,
                   pass, mainVars>>

CleanUp ==
    /\ npc = "clean"
    /\ cleaned' = Cleanup(processed)
    /\ npc' = "wrap"
    /\ UNCHANGED <<raw_text, lines, processed, prev_char, result, pass,
                   mainVars>>

WrapResult ==
    /\ npc = "wrap"
    /\ result' = Wrap(cleaned)
    /\ npc' = "done"
    /\ UNCHANGED <<raw_text, lines, processed, prev_char, cleaned, pass,
                   mainVars>>

\* The function is called again on the content region it produced.
Reprocess ==
    /\ npc = "done" /\ pass = 1
    /\ raw_text' = ContentRegion(result)
    /\ lines' = Lines(raw_text')
    /\ processed' = <<>>
    /\ prev_char' = " "
    /\ cleaned' = <<>>
    /\ result' = <<>>
    /\ npc' = "loop"
    /\ pass' = 2
    /\ UNCHANGED mainVars

NextNorm ==
    \/ IterBlank
    \/ IterLine
    \/ LoopEnd
    \/ CleanUp
    \/ WrapResult
    \/ Reprocess

SpecNorm == InitNorm /\ [][NextNorm]_vars

-----------------------------------------------------------------------------
(* Paths, as std::path::Path takes them apart on Unix                       *)

\* Path::components(): a leading "/" is the root, a leading "." the current
\* directory; of the segments between slashes the empty ones and the "."
\* ones are dropped, ".." is the parent directory, any other a normal name.
Components(p) ==
    LET has_root == p # <<>> /\ p[1] = "/"
        include_cur_dir ==
            /\ ~has_root /\ p # <<>> /\ p[1] = "."
            /\ (Len(p) = 1 \/ p[2] = "/")
        start == IF has_root THEN <<[kind |-> "RootDir", name |-> <<>>]>>
                 ELSE IF include_cur_dir
                      THEN <<[kind |-> "CurDir", name |-> <<>>]>>
                      ELSE <<>>
        Kept(seg) == seg # <<>> /\ seg # <<".">>
        body == SelectSeq(SplitOn(p, "/"), Kept)
    IN start \o
       [i \in 1..Len(body) |->
           IF body[i] = <<".", ".">>
           THEN [kind |-> "ParentDir", name |-> <<>>]
           ELSE [kind |-> "Normal", name |-> body[i]]]

\* Path::file_name(): the last component when it is a normal name.
FileName(p) ==
    LET cs == Components(p)
    IN IF cs # <<>> /\ Last(cs).kind = "Normal" THEN Some(Last(cs).name)
       ELSE None

\* rsplit_file_at_dot: <<before, after>> the last dot of a file name.
RsplitFileAtDot(f) ==
    IF f = <<".", ".">> THEN <<Some(f), None>>
    ELSE LET dots == {i \in 1..Len(f) : f[i] = "."}
         IN IF dots = {} THEN <<None, Some(f)>>
            ELSE LET d == CHOOSE i \in dots : \A j \in dots : j <= i
                     before == SubSeq(f, 1, d - 1)
                     after == SubSeq(f, d + 1, Len(f))
                 IN IF before = <<>> THEN <<Some(f), None>>
                    ELSE <<Some(before), Some(after)>>

\* Path::file_stem()
FileStem(p) ==
    LET name == FileName(p)
    IN IF name = None THEN None
       ELSE LET parts == RsplitFileAtDot(name[1])
            IN IF parts[1] # None THEN parts[1] ELSE parts[2]

-----------------------------------------------------------------------------
(* main                                                                    *)

\* The values --output is given in the model.
OutputArgs == {None, Some(<<"o">>), Some(<<>>)}

\* The texts the extraction returns in the model.
ExtractedTexts == SeqsUpTo(Chars, MaxTextLen)

\* The arguments are parsed; main is about to check the input.
Init ==
    /\ input_path \in SeqsUpTo(PathChars, MaxPathLen)
    /\ output_arg \in OutputArgs
    /\ verbose \in BOOLEAN
    /\ pc = "check"
    /\ output_path = None
    /\ text = <<>>
    /\ processed_text = <<>>
    /\ file = "untouched"
    /\ file_content = <<>>
    /\ stdout = <<>>
    /\ stderr = <<>>
    /\ exit_code = None
    /\ steps = <<>>
    /\ NormIdle

\* A plausible slip: the error is reported, but the process does not exit.
CheckExistsNoExit ==
    /\ pc = "check"
    /\ \E exists \in BOOLEAN :
          /\ input_path = <<>> => ~exists
          /\ IF ~exists
             THEN /\ stderr' = Append(stderr,
                        <<"Error: Input file '", input_path, "' does not exist">>)
                  /\ steps' = steps \o <<"exists", "error">>
             ELSE /\ steps' = Append(steps, "exists")
                  /\ UNCHANGED stderr
    /\ pc' = "output"
    /\ UNCHANGED <<input_path, output_arg, verbose, output_path, text,
                   processed_text, file, file_content, stdout, exit_code,
                   normVars>>

\* Path::new(input_path).exists(); the empty path never exists.
CheckExists ==
    /\ pc = "check"
    /\ \E exists \in BOOLEAN :
          /\ input_path = <<>> => ~exists
          /\ IF ~exists
             THEN /\ stderr' = Append(stderr,
                        <<"Error: Input file '", input_path, "' does not exist">>)
                  /\ exit_code' = Some(1)
                  /\ pc' = "exited"
                  /\ steps' = steps \o <<"exists", "error">>
             ELSE /\ pc' = "output"
                  /\ steps' = Append(steps, "exists")
                  /\ UNCHANGED <<stderr, exit_code>>
    /\ UNCHANGED <<input_path, output_arg, verbose, output_path, text,
                   processed_text, file, file_content, stdout, normVars>>

\* The output path is determined; file_stem().unwrap() panics (exit status
\* 101) when the input path has no file name.  Then the verbose lines.
DetermineOutputPath ==
    /\ pc = "output"
    /\ IF output_arg # None
       THEN output_path' = Some(output_arg[1])
       ELSE IF FileStem(input_path) # None
            THEN output_path' =
                    Some(FileStem(input_path)[1] \o <<".", "t", "x", "t">>)
            ELSE UNCHANGED output_path
    /\ IF output_arg = None /\ FileStem(input_path) = None
       THEN /\ stderr' = Append(stderr,
                  <<"panicked: called Option::unwrap() on a None value">>)
            /\ exit_code' = Some(101)
            /\ pc' = "exited"
            /\ UNCHANGED stdout
       ELSE /\ stdout' =
                  IF verbose
                  THEN stdout \o << <<"Input file: ", input_path>>,
                                    <<"Output file: ", output_path'[1]>>,
                                    <<"Starting PDF text extraction...">> >>
                  ELSE stdout
            /\ pc' = "extract"
            /\ UNCHANGED <<stderr, exit_code>>
    /\ UNCHANGED <<input_path, output_arg, verbose, text, processed_text,
                   file, file_content, steps, normVars>>

\* extract_text_from_pdf: the library returns a text or an error.
Extract ==
    /\ pc = "extract"
    /\ \/ \E t \in ExtractedTexts :
             /\ text' = t
             /\ stdout' =
                   IF verbose
                   THEN Append(stdout,
                           <<"Successfully extracted ", Len(t), " characters">>)
                   ELSE stdout
             /\ pc' = "process"
             /\ steps' = Append(steps, "extract")
             /\ UNCHANGED <<stderr, exit_code>>
       \/ /\ stderr' = Append(stderr,
                <<"Error extracting text from PDF: ", "e">>)
          /\ exit_code' = Some(1)
          /\ pc' = "exited"
          /\ steps' = steps \o <<"extract", "error">>
          /\ UNCHANGED <<text, stdout>>
    /\ UNCHANGED <<input_path, output_arg, verbose, output_path,
                   processed_text, file, file_content, normVars>>

Process ==
    /\ pc = "process"
    /\ processed_text' = process_extracted_text(text)
    /\ pc' = "write"
    /\ steps' = Append(steps, "normalize")
    /\ UNCHANGED <<input_path, output_arg, verbose, output_path, text, file,
                   file_content, stdout, stderr, exit_code, normVars>>

\* fs::write: it succeeds, or it fails and leaves the file as it was or
\* created or truncated.  Writing to the empty path always fails.
Write ==
    /\ pc = "write"
    /\ \/ /\ output_path[1] # <<>>
          /\ file' = "written"
          /\ file_content' = processed_text
          /\ pc' = "report"
          /\ steps' = Append(steps, "write")
          /\ UNCHANGED <<stderr, exit_code>>
       \/ /\ \E touched \in BOOLEAN :
                file' = IF touched /\ output_path[1] # <<>>
                        THEN "partial" ELSE file
          /\ stderr' = Append(stderr, <<"Error writing to output file: ", "e">>)
          /\ exit_code' = Some(1)
          /\ pc' = "exited"
          /\ steps' = steps \o <<"write", "error">>
          /\ UNCHANGED file_content
    /\ UNCHANGED <<input_path, output_arg, verbose, output_path, text,
                   processed_text, stdout, normVars>>

\* The confirmation (the source starts it with a check-mark sign); main
\* returns and the process ends with status 0.
Report ==
    /\ pc = "report"
    /\ stdout' =
          Append(stdout, <<"Successfully converted '", input_path, "' to '",
                           output_path[1], "'">>)
          \o (IF verbose THEN << <<"Text extraction complete!">> >> ELSE <<>>)
    /\ exit_code' = Some(0)
    /\ pc' = "exited"
    /\ steps' = Append(steps, "report")
    /\ UNCHANGED <<input_path, output_arg, verbose, output_path, text,
                   processed_text, file, file_content, stderr, normVars>>

Next ==
    \/ CheckExists
    \/ DetermineOutputPath
    \/ Extract
    \/ Process
    \/ Write
    \/ Report

Spec == Init /\ [][Next]_vars

-----------------------------------------------------------------------------
(* Properties of process_extracted_text (under SpecNorm)                   *)

\* The maximal runs of non white space of s, as pairs <<first, last>>.
TokenRuns(s) ==
    {r \in (1..Len(s)) \X (1..Len(s)) :
        /\ r[1] <= r[2]
        /\ \A k \in r[1]..r[2] : s[k] \notin WhiteSpaceChars
        /\ (r[1] = 1 \/ s[r[1] - 1] \in WhiteSpaceChars)
        /\ (r[2] = Len(s) \/ s[r[2] + 1] \in WhiteSpaceChars)}

\* The maximal non white space tokens of s, in their order.
MaximalTokens(s) ==
    LET runs == TokenRuns(s)
        nth(n) == CHOOSE r \in runs :
                     Cardinality({q \in runs : q[1] < r[1]}) = n - 1
    IN [n \in 1..Cardinality(runs) |-> SubSeq(s, nth(n)[1], nth(n)[2])]

\* A line with a non white space character, and that line without the white
\* space around it.
NonBlank(l) == \E i \in 1..Len(l) : l[i] \notin WhiteSpaceChars
Stripped(l) ==
    LET idx == {i \in 1..Len(l) : l[i] \notin WhiteSpaceChars}
        lo == CHOOSE i \in idx : \A j \in idx : i <= j
        hi == CHOOSE i \in idx : \A j \in idx : j <= i
    IN SubSeq(l, lo, hi)

\* C1: for every input the result is, line by line, the four header lines,
\* an empty line, the content region, an empty line and the footer line,
\* ended by a newline.
C1_HeaderFooterLines ==
    npc = "done" =>
        SplitOn(result, "\n") =
            << <<HeaderTitle>>, <<HeaderNotice1>>, <<HeaderNotice2>>,
               <<ContentBegins>>, <<>>, ContentRegion(result), <<>>,
               <<ContentEnds>>, <<>> >>

C1_Witness ==
    /\ npc = "done" /\ pass = 1
    /\ \E i \in 1..Len(raw_text) : raw_text[i] = "\n"
    /\ Len(ContentRegion(result)) >= 3

\* C2: the content region holds no newline, no white space other than the
\* space, no two adjacent spaces, and neither starts nor ends with a space.
C2_ContentSingleSpaced ==
    npc = "done" =>
        LET c == ContentRegion(result)
        IN /\ \A i \in 1..Len(c) : c[i] \notin (WhiteSpaceChars \ {" "})
           /\ \A i \in 1..(Len(c) - 1) : ~(c[i] = " " /\ c[i + 1] = " ")
           /\ c # <<>> => (c[1] # " " /\ c[Len(c)] # " ")

C2_Witness ==
    /\ npc = "done" /\ pass = 1
    /\ \E i \in 2..(Len(raw_text) - 2) :
          /\ raw_text[i] = " " /\ raw_text[i + 1] = "\r"
          /\ raw_text[i - 1] \notin WhiteSpaceChars
          /\ raw_text[i + 2] \notin WhiteSpaceChars
    /\ raw_text[Len(raw_text)] = " "

C4_Idempotent ==
    (npc = "done" /\ pass = 2) => ContentRegion(result) = raw_text

C4_Witness ==
    /\ npc = "done" /\ pass = 2
    /\ Len(MaximalTokens(raw_text)) >= 2
    /\ ContentRegion(result) = raw_text

\* C5: an input that is empty or all white space gives the header, an empty
\* content region and the footer.
C5_EmptyContent ==
    (npc = "done" /\ \A i \in 1..Len(raw_text) : raw_text[i] \in WhiteSpaceChars)
        => result = <<HeaderTitle, "\n", HeaderNotice1, "\n", HeaderNotice2,
                      "\n", ContentBegins, "\n", "\n", "\n", "\n",
                      ContentEnds, "\n">>

C5_Witness ==
    /\ npc = "done" /\ pass = 1
    /\ Len(raw_text) >= 3
    /\ \A i \in 1..Len(raw_text) : raw_text[i] \in WhiteSpaceChars
    /\ \E i \in 1..Len(raw_text) : raw_text[i] = "\r"
    /\ \E i \in 1..Len(raw_text) : raw_text[i] = "\n"

\* C9: the accumulated text never starts with a newline and never holds
\* more than two newlines in a row.
C9_BlankLinesCollapsed ==
    /\ processed # <<>> => processed[1] # "\n"
    /\ \A i \in 1..(Len(processed) - 2) :
          ~(processed[i] = "\n" /\ processed[i + 1] = "\n"
            /\ processed[i + 2] = "\n")

\* A non-blank line followed by three blank lines has been consumed.
C9_Witness ==
    /\ npc = "loop" /\ pass = 1
    /\ EndsWith(processed, <<"\n", "\n">>)
    /\ Len(Lines(raw_text)) - Len(lines) = 4
    /\ \A i \in 2..4 : ~NonBlank(Lines(raw_text)[i])

\* C10: an iteration on a non-blank line appends the stripped line, after
\* exactly one space when the accumulated text is non-empty and does not
\* end in a newline and after nothing otherwise; the accumulated text then
\* does not end in white space.
C10_SpaceInsertion ==
    [][(npc = "loop" /\ lines # <<>> /\ NonBlank(Head(lines))) =>
          /\ processed' =
                processed
                \o (IF processed # <<>> /\ Last(processed) # "\n"
                    THEN <<" ">> ELSE <<>>)
                \o Stripped(Head(lines))
          /\ Last(processed') \notin WhiteSpaceChars]_vars

\* A space was inserted between two punctuation characters.
C10_Witness ==
    /\ npc = "loop" /\ pass = 1 /\ lines = <<>>
    /\ raw_text = <<".", " ", "\n", " ", ".">>
    /\ processed = <<".", " ", ".">>

-----------------------------------------------------------------------------
(* Properties of main (under Spec)                                         *)

\* The steps of a run that succeeds, in their order.
StepOrder == <<"exists", "extract", "normalize", "write", "report">>

\* The existence check has passed and the output path has been dealt with.
PastOutputPath ==
    /\ pc \notin {"check", "output"}
    /\ steps # <<>> /\ steps # <<"exists", "error">>

\* C6: a run ends with status 0 or 1; 0 exactly when the input exists and
\* extraction and write succeed, 1 with an error reported otherwise.
C6_ExitZeroOrOne ==
    pc = "exited" =>
        /\ exit_code \in {Some(0), Some(1)}
        /\ exit_code = Some(0) <=> (steps = StepOrder /\ file = "written")
        /\ exit_code = Some(1) => (stderr # <<>> /\ Last(steps) = "error")

\* C7: for every input path that exists an output path is computed before
\* extraction: the --output value when given, else the stem followed by
\* ".txt", without any directory component.
C7_OutputPathDefined ==
    PastOutputPath =>
        /\ output_path # None
        /\ output_arg # None => output_path = output_arg
        /\ output_arg = None =>
              /\ \A i \in 1..Len(output_path[1]) : output_path[1][i] # "/"
              /\ Len(output_path[1]) > 4
              /\ SubSeq(output_path[1], Len(output_path[1]) - 3,
                        Len(output_path[1])) = <<".", "t", "x", "t">>

\* C8: the steps run in the order existence check, extraction,
\* normalization, write, report, each at most once, and a reported error is
\* the last thing a run does; the output file is touched only by the write
\* step and the confirmation is printed only after a successful write.
C8_StepOrder ==
    /\ \/ \E k \in 0..5 : steps = SubSeq(StepOrder, 1, k)
       \/ \E k \in {1, 2, 4} : steps = SubSeq(StepOrder, 1, k) \o <<"error">>
    /\ file # "untouched" =>
          (Len(steps) >= 4 /\ SubSeq(steps, 1, 4) = SubSeq(StepOrder, 1, 4))
    /\ (\E i \in 1..Len(stdout) : stdout[i][1] = "Successfully converted '")
          => (steps = StepOrder /\ file = "written")
    /\ (steps # <<>> /\ Last(steps) = "error") =>
          (pc = "exited" /\ stderr # <<>>)

\* An extraction failure ended a run: nothing was written.
C8_Witness ==
    /\ pc = "exited"
    /\ steps = <<"exists", "extract", "error">>
    /\ file = "untouched"
    /\ exit_code = Some(1)

=============================================================================
